---- MODULE Spec2Model ----
(***************************************************************************)
(* State-machine model of the quoridor rules engine                        *)
(* (src/quoridor_llm/quoridor.py): Pos, Dir, Edges and GameState with its  *)
(* move and wall placement operations and the BFS reachability check.      *)
(***************************************************************************)
EXTENDS Integers, Sequences, FiniteSets, TLC

(***************************************************************************)
(* Bounds of the model.  constants.py is not among the sources; the        *)
(* reference game uses a 9x9 board and 10 walls per player.                *)
(***************************************************************************)
BOARD_SIZE == 3

PLAYER_WALL_START_COUNT == 2

(***************************************************************************)
(* Dir (enum) and Pos                                                      *)
(***************************************************************************)
UP == 0

DOWN == 1

LEFT == 2

RIGHT == 3

Dir == {UP, DOWN, LEFT, RIGHT}

Pos(r, c) == [row |-> r, col |-> c]

\* Pos.__add__
PosAdd(a, b) == Pos(a.row + b.row, a.col + b.col)

\* Dir.as_pos_delta
as_pos_delta(d) ==
    CASE d = UP    -> Pos(1, 0)
      [] d = DOWN  -> Pos(-1, 0)
      [] d = LEFT  -> Pos(0, -1)
      [] d = RIGHT -> Pos(0, 1)

\* Dir.__str__
dir_str(d) ==
    CASE d = UP    -> "up"
      [] d = DOWN  -> "down"
      [] d = LEFT  -> "left"
      [] d = RIGHT -> "right"

\* Dir.from_str accepting "top" for UP as well
from_str_accepts_top(s) ==
    IF s = "up" \/ s = "top" THEN [exc |-> "", val |-> UP]
    ELSE IF s = "down" THEN [exc |-> "", val |-> DOWN]
    ELSE IF s = "left" THEN [exc |-> "", val |-> LEFT]
    ELSE IF s = "right" THEN [exc |-> "", val |-> RIGHT]
    ELSE [exc |-> "ValueError", val |-> UP]

\* Dir.from_str : [exc, val], exc = "ValueError" when s names no direction
\* (val is then meaningless).
from_str(s) ==
    IF s = "up" THEN [exc |-> "", val |-> UP]
    ELSE IF s = "down" THEN [exc |-> "", val |-> DOWN]
    ELSE IF s = "left" THEN [exc |-> "", val |-> LEFT]
    ELSE IF s = "right" THEN [exc |-> "", val |-> RIGHT]
    ELSE [exc |-> "ValueError", val |-> UP]

(***************************************************************************)
(* Edges: a flat list of rows*cols booleans, indexed row * cols + col.     *)
(***************************************************************************)
Edges(rows, cols) ==
    [cells |-> [i \in 0 .. (rows * cols - 1) |-> FALSE], rows |-> rows, cols |-> cols]

\* Edges.__call__
EdgesCall(e, pos) == e.cells[pos.row * e.cols + pos.col]

\* Edges.set writing the flag into a cleared grid
EdgesSet_cleared_grid(e, pos) ==
    IF e.cells[pos.row * e.cols + pos.col]
    THEN [exc |-> "AssertionError", e |-> e]
    ELSE [exc |-> "",
          e |-> [e EXCEPT !.cells = [i \in DOMAIN @ |-> i = pos.row * e.cols + pos.col]]]

\* Edges.set : asserts the flag is clear, then sets it.
EdgesSet(e, pos) ==
    IF e.cells[pos.row * e.cols + pos.col]
    THEN [exc |-> "AssertionError", e |-> e]
    ELSE [exc |-> "", e |-> [e EXCEPT !.cells[pos.row * e.cols + pos.col] = TRUE]]

(***************************************************************************)
(* GameState.  A call that may raise returns a record whose field exc      *)
(* names the exception ("" when none is raised).                           *)
(***************************************************************************)
Player(pos, wall_balance) == [pos |-> pos, wall_balance |-> wall_balance]

GameState(edges_up, edges_right, player_a, player_b) ==
    [edges_up |-> edges_up, edges_right |-> edges_right,
     players |-> [i \in {0, 1} |-> IF i = 0 THEN player_a ELSE player_b]]

\* new_game with both players starting in column 0
new_game_first_column ==
    LET player_start_col == 0
    IN  GameState(Edges(BOARD_SIZE - 1, BOARD_SIZE),
                  Edges(BOARD_SIZE, BOARD_SIZE - 1),
                  Player(Pos(0, player_start_col), PLAYER_WALL_START_COUNT),
                  Player(Pos(BOARD_SIZE - 1, player_start_col), PLAYER_WALL_START_COUNT))

new_game ==
    LET player_start_col == BOARD_SIZE \div 2
    IN  GameState(Edges(BOARD_SIZE - 1, BOARD_SIZE),
                  Edges(BOARD_SIZE, BOARD_SIZE - 1),
                  Player(Pos(0, player_start_col), PLAYER_WALL_START_COUNT),
                  Player(Pos(BOARD_SIZE - 1, player_start_col), PLAYER_WALL_START_COUNT))

_is_position_inbounds(pos) ==
    /\ 0 <= pos.row /\ pos.row < BOARD_SIZE
    /\ 0 <= pos.col /\ pos.col < BOARD_SIZE

\* _wall_canonical_index taking LEFT as the right edge of the same cell
_wall_canonical_index_left_unshifted(pos, direction) ==
    LET checked(pos_canonical, direction_canonical) ==
            IF ~_is_position_inbounds(pos_canonical)
            THEN [exc |-> "IndexError", pos |-> pos_canonical, dir |-> direction_canonical]
            ELSE IF /\ direction_canonical = UP
                    /\ ~(0 <= pos_canonical.row /\ pos_canonical.row < BOARD_SIZE - 1)
            THEN [exc |-> "IndexError", pos |-> pos_canonical, dir |-> direction_canonical]
            ELSE IF /\ direction_canonical = RIGHT
                    /\ ~(0 <= pos_canonical.col /\ pos_canonical.col < BOARD_SIZE - 1)
            THEN [exc |-> "IndexError", pos |-> pos_canonical, dir |-> direction_canonical]
            ELSE [exc |-> "", pos |-> pos_canonical, dir |-> direction_canonical]
    IN  IF direction \in {UP, RIGHT} THEN checked(pos, direction)
        ELSE IF direction = LEFT THEN checked(pos, RIGHT)
        ELSE checked(PosAdd(pos, as_pos_delta(DOWN)), UP)

\* _wall_canonical_index taking DOWN as the top edge of the same cell
_wall_canonical_index_down_unshifted(pos, direction) ==
    LET checked(pos_canonical, direction_canonical) ==
            IF ~_is_position_inbounds(pos_canonical)
            THEN [exc |-> "IndexError", pos |-> pos_canonical, dir |-> direction_canonical]
            ELSE IF /\ direction_canonical = UP
                    /\ ~(0 <= pos_canonical.row /\ pos_canonical.row < BOARD_SIZE - 1)
            THEN [exc |-> "IndexError", pos |-> pos_canonical, dir |-> direction_canonical]
            ELSE IF /\ direction_canonical = RIGHT
                    /\ ~(0 <= pos_canonical.col /\ pos_canonical.col < BOARD_SIZE - 1)
            THEN [exc |-> "IndexError", pos |-> pos_canonical, dir |-> direction_canonical]
            ELSE [exc |-> "", pos |-> pos_canonical, dir |-> direction_canonical]
    IN  IF direction \in {UP, RIGHT} THEN checked(pos, direction)
        ELSE IF direction = LEFT THEN checked(PosAdd(pos, as_pos_delta(LEFT)), RIGHT)
        ELSE checked(pos, UP)

\* _wall_canonical_index : [exc, pos, dir], exc = "IndexError" when the
\* canonical slot is invalid.
_wall_canonical_index(pos, direction) ==
    LET checked(pos_canonical, direction_canonical) ==
            IF ~_is_position_inbounds(pos_canonical)
            THEN [exc |-> "IndexError", pos |-> pos_canonical, dir |-> direction_canonical]
            ELSE IF /\ direction_canonical = UP
                    /\ ~(0 <= pos_canonical.row /\ pos_canonical.row < BOARD_SIZE - 1)
            THEN [exc |-> "IndexError", pos |-> pos_canonical, dir |-> direction_canonical]
            ELSE IF /\ direction_canonical = RIGHT
                    /\ ~(0 <= pos_canonical.col /\ pos_canonical.col < BOARD_SIZE - 1)
            THEN [exc |-> "IndexError", pos |-> pos_canonical, dir |-> direction_canonical]
            ELSE [exc |-> "", pos |-> pos_canonical, dir |-> direction_canonical]
    IN  IF direction \in {UP, RIGHT} THEN checked(pos, direction)
        ELSE IF direction = LEFT THEN checked(PosAdd(pos, as_pos_delta(LEFT)), RIGHT)
        ELSE checked(PosAdd(pos, as_pos_delta(DOWN)), UP)

\* wall_exists : [exc, val]
wall_exists(g, pos, direction) ==
    LET lookup(c) ==
            IF c.exc # "" THEN [exc |-> c.exc, val |-> FALSE]
            ELSE IF c.dir = UP THEN [exc |-> "", val |-> EdgesCall(g.edges_up, c.pos)]
            ELSE [exc |-> "", val |-> EdgesCall(g.edges_right, c.pos)]
    IN  lookup(_wall_canonical_index(pos, direction))

\* wall_place (one segment) : [exc, g]
wall_place(g, pos, direction) ==
    LET up(r) == [exc |-> r.exc, g |-> [g EXCEPT !.edges_up = r.e]]
        right(r) == [exc |-> r.exc, g |-> [g EXCEPT !.edges_right = r.e]]
        place(c) ==
            IF c.exc # "" THEN [exc |-> c.exc, g |-> g]
            ELSE IF c.dir = UP THEN up(EdgesSet(g.edges_up, c.pos))
            ELSE right(EdgesSet(g.edges_right, c.pos))
    IN  place(_wall_canonical_index(pos, direction))

(***************************************************************************)
(* _can_player_reach_goal : [exc, val].  Breadth-first search in which the *)
(* enemy's cell is an obstacle.  bfs_directions is the for loop over the   *)
(* four directions, bfs_loop the while loop over the queue; enqueued       *)
(* records, in order, every cell the search appends to the queue (the      *)
(* start cell first).                                                      *)
(***************************************************************************)
\* bfs_directions without the wall test
RECURSIVE bfs_directions_ignores_walls(_, _, _, _, _, _, _)
bfs_directions_ignores_walls(g, pos, enemy_pos, dirs, queue, visited, enqueued) ==
    LET rest(q, v, n) == bfs_directions_ignores_walls(g, pos, enemy_pos, Tail(dirs), q, v, n)
        step(new_pos, w) ==
            IF new_pos = enemy_pos THEN rest(queue, visited, enqueued)
            ELSE IF ~_is_position_inbounds(new_pos) THEN rest(queue, visited, enqueued)
            ELSE IF new_pos \in visited THEN rest(queue, visited, enqueued)
            ELSE IF w.exc # ""
            THEN [exc |-> w.exc, queue |-> queue, visited |-> visited, enqueued |-> enqueued]
            ELSE rest(Append(queue, new_pos), visited \cup {new_pos},
                      Append(enqueued, new_pos))
    IN  IF dirs = <<>>
        THEN [exc |-> "", queue |-> queue, visited |-> visited, enqueued |-> enqueued]
        ELSE step(PosAdd(pos, as_pos_delta(Head(dirs))), wall_exists(g, pos, Head(dirs)))

\* bfs_directions without the visited test for the cell above
RECURSIVE bfs_directions_revisits_up(_, _, _, _, _, _, _)
bfs_directions_revisits_up(g, pos, enemy_pos, dirs, queue, visited, enqueued) ==
    LET rest(q, v, n) == bfs_directions_revisits_up(g, pos, enemy_pos, Tail(dirs), q, v, n)
        step(new_pos, w) ==
            IF new_pos = enemy_pos THEN rest(queue, visited, enqueued)
            ELSE IF ~_is_position_inbounds(new_pos) THEN rest(queue, visited, enqueued)
            ELSE IF Head(dirs) # UP /\ new_pos \in visited THEN rest(queue, visited, enqueued)
            ELSE IF w.exc # ""
            THEN [exc |-> w.exc, queue |-> queue, visited |-> visited, enqueued |-> enqueued]
            ELSE IF w.val THEN rest(queue, visited, enqueued)
            ELSE rest(Append(queue, new_pos), visited \cup {new_pos},
                      Append(enqueued, new_pos))
    IN  IF dirs = <<>>
        THEN [exc |-> "", queue |-> queue, visited |-> visited, enqueued |-> enqueued]
        ELSE step(PosAdd(pos, as_pos_delta(Head(dirs))), wall_exists(g, pos, Head(dirs)))

RECURSIVE bfs_directions(_, _, _, _, _, _, _)
bfs_directions(g, pos, enemy_pos, dirs, queue, visited, enqueued) ==
    LET rest(q, v, n) == bfs_directions(g, pos, enemy_pos, Tail(dirs), q, v, n)
        step(new_pos, w) ==
            IF new_pos = enemy_pos THEN rest(queue, visited, enqueued)
            ELSE IF ~_is_position_inbounds(new_pos) THEN rest(queue, visited, enqueued)
            ELSE IF new_pos \in visited THEN rest(queue, visited, enqueued)
            ELSE IF w.exc # ""
            THEN [exc |-> w.exc, queue |-> queue, visited |-> visited, enqueued |-> enqueued]
            ELSE IF w.val THEN rest(queue, visited, enqueued)
            ELSE rest(Append(queue, new_pos), visited \cup {new_pos},
                      Append(enqueued, new_pos))
    IN  IF dirs = <<>>
        THEN [exc |-> "", queue |-> queue, visited |-> visited, enqueued |-> enqueued]
        ELSE step(PosAdd(pos, as_pos_delta(Head(dirs))), wall_exists(g, pos, Head(dirs)))

RECURSIVE bfs_loop(_, _, _, _, _, _)
bfs_loop(g, enemy_pos, target_row, queue, visited, enqueued) ==
    LET continue(n) ==
            IF n.exc # "" THEN [exc |-> n.exc, val |-> FALSE, enqueued |-> n.enqueued]
            ELSE bfs_loop(g, enemy_pos, target_row, n.queue, n.visited, n.enqueued)
    IN  IF queue = <<>> THEN [exc |-> "", val |-> FALSE, enqueued |-> enqueued]
        ELSE IF Head(queue).row = target_row
        THEN [exc |-> "", val |-> TRUE, enqueued |-> enqueued]
        ELSE continue(bfs_directions(g, Head(queue), enemy_pos, <<UP, DOWN, LEFT, RIGHT>>,
                                     Tail(queue), visited, enqueued))

\* The search of _can_player_reach_goal : [exc, val, enqueued]
bfs(g, player_idx, enemy_pos, target_row) ==
    bfs_loop(g, enemy_pos, target_row,
             <<g.players[player_idx].pos>>, {g.players[player_idx].pos},
             <<g.players[player_idx].pos>>)

\* _can_player_reach_goal with the two goal rows exchanged
_can_player_reach_goal_rows_swapped(g, player_idx) ==
    LET return(b) == [exc |-> b.exc, val |-> b.val]
    IN  return(bfs(g, player_idx, g.players[1 - player_idx].pos,
                   IF player_idx = 0 THEN 0 ELSE BOARD_SIZE - 1))

\* _can_player_reach_goal in which the enemy's cell is no obstacle
_can_player_reach_goal_through_enemy(g, player_idx) ==
    LET return(b) == [exc |-> b.exc, val |-> b.val]
    IN  return(bfs(g, player_idx, Pos(-1, -1),
                   IF player_idx = 0 THEN BOARD_SIZE - 1 ELSE 0))

_can_player_reach_goal(g, player_idx) ==
    LET return(b) == [exc |-> b.exc, val |-> b.val]
    IN  return(bfs(g, player_idx, g.players[1 - player_idx].pos,
                   IF player_idx = 0 THEN BOARD_SIZE - 1 ELSE 0))

(***************************************************************************)
(* wall_place_composite : [exc, ret, g].  ret is the returned message      *)
(* (its distinguishing phrase), "" on success; exc is an exception that    *)
(* escapes the call; g is the game state the call leaves behind.           *)
(***************************************************************************)
\* wall_commit applying the first segment only
wall_commit_one_segment(g, cell_can, edge_can, cell_can_extends) ==
    LET first(q1) == [exc |-> q1.exc, ret |-> "", g |-> q1.g]
    IN  first(wall_place(g, cell_can, edge_can))

\* the two placements on the live state (the last two statements)
wall_commit(g, cell_can, edge_can, cell_can_extends) ==
    LET second(q2) == [exc |-> q2.exc, ret |-> "", g |-> q2.g]
        first(q1) ==
            IF q1.exc # "" THEN [exc |-> q1.exc, ret |-> "", g |-> q1.g]
            ELSE second(wall_place(q1.g, cell_can_extends, edge_can))
    IN  first(wall_place(g, cell_can, edge_can))

\* the deep copy with both segments placed : [exc, g]
wall_copy_place(g, cell_can, edge_can, cell_can_extends) ==
    LET first(p1) ==
            IF p1.exc # "" THEN p1 ELSE wall_place(p1.g, cell_can_extends, edge_can)
    IN  first(wall_place(g, cell_can, edge_can))

\* wall_trial placing the segments on the live state instead of a deep copy
wall_trial_no_copy(g, cell_can, edge_can, cell_can_extends) ==
    LET checks(live, r0, r1) ==
            IF r0.exc # "" THEN [exc |-> r0.exc, ret |-> "", g |-> live]
            ELSE IF ~r0.val THEN [exc |-> "", ret |-> "IMPOSSIBLE for player 0", g |-> live]
            ELSE IF r1.exc # "" THEN [exc |-> r1.exc, ret |-> "", g |-> live]
            ELSE IF ~r1.val THEN [exc |-> "", ret |-> "IMPOSSIBLE for player 1", g |-> live]
            ELSE [exc |-> "", ret |-> "", g |-> live]
        trial(placed_live) ==
            IF placed_live.exc # "" THEN [exc |-> placed_live.exc, ret |-> "", g |-> placed_live.g]
            ELSE checks(placed_live.g, _can_player_reach_goal(placed_live.g, 0),
                        _can_player_reach_goal(placed_live.g, 1))
    IN  trial(wall_copy_place(g, cell_can, edge_can, cell_can_extends))

\* wall_trial without the check for player 1
wall_trial_player0_only(g, cell_can, edge_can, cell_can_extends) ==
    LET checks(r0) ==
            IF r0.exc # "" THEN [exc |-> r0.exc, ret |-> "", g |-> g]
            ELSE IF ~r0.val THEN [exc |-> "", ret |-> "IMPOSSIBLE for player 0", g |-> g]
            ELSE wall_commit(g, cell_can, edge_can, cell_can_extends)
        trial(game_copy) ==
            IF game_copy.exc # "" THEN [exc |-> game_copy.exc, ret |-> "", g |-> g]
            ELSE checks(_can_player_reach_goal(game_copy.g, 0))
    IN  trial(wall_copy_place(g, cell_can, edge_can, cell_can_extends))

\* wall_trial naming the other player in its messages
wall_trial_names_swapped(g, cell_can, edge_can, cell_can_extends) ==
    LET checks(r0, r1) ==
            IF r0.exc # "" THEN [exc |-> r0.exc, ret |-> "", g |-> g]
            ELSE IF ~r0.val THEN [exc |-> "", ret |-> "IMPOSSIBLE for player 1", g |-> g]
            ELSE IF r1.exc # "" THEN [exc |-> r1.exc, ret |-> "", g |-> g]
            ELSE IF ~r1.val THEN [exc |-> "", ret |-> "IMPOSSIBLE for player 0", g |-> g]
            ELSE wall_commit(g, cell_can, edge_can, cell_can_extends)
        trial(game_copy) ==
            IF game_copy.exc # "" THEN [exc |-> game_copy.exc, ret |-> "", g |-> g]
            ELSE checks(_can_player_reach_goal(game_copy.g, 0),
                        _can_player_reach_goal(game_copy.g, 1))
    IN  trial(wall_copy_place(g, cell_can, edge_can, cell_can_extends))

\* wall_trial without the check for player 0
wall_trial_player1_only(g, cell_can, edge_can, cell_can_extends) ==
    LET checks(r1) ==
            IF r1.exc # "" THEN [exc |-> r1.exc, ret |-> "", g |-> g]
            ELSE IF ~r1.val THEN [exc |-> "", ret |-> "IMPOSSIBLE for player 1", g |-> g]
            ELSE wall_commit(g, cell_can, edge_can, cell_can_extends)
        trial(game_copy) ==
            IF game_copy.exc # "" THEN [exc |-> game_copy.exc, ret |-> "", g |-> g]
            ELSE checks(_can_player_reach_goal(game_copy.g, 1))
    IN  trial(wall_copy_place(g, cell_can, edge_can, cell_can_extends))

\* the blocking checks on the copy, then the commit on the live state
wall_trial(g, cell_can, edge_can, cell_can_extends) ==
    LET checks(r0, r1) ==
            IF r0.exc # "" THEN [exc |-> r0.exc, ret |-> "", g |-> g]
            ELSE IF ~r0.val THEN [exc |-> "", ret |-> "IMPOSSIBLE for player 0", g |-> g]
            ELSE IF r1.exc # "" THEN [exc |-> r1.exc, ret |-> "", g |-> g]
            ELSE IF ~r1.val THEN [exc |-> "", ret |-> "IMPOSSIBLE for player 1", g |-> g]
            ELSE wall_commit(g, cell_can, edge_can, cell_can_extends)
        trial(game_copy) ==
            IF game_copy.exc # "" THEN [exc |-> game_copy.exc, ret |-> "", g |-> g]
            ELSE checks(_can_player_reach_goal(game_copy.g, 0),
                        _can_player_reach_goal(game_copy.g, 1))
    IN  trial(wall_copy_place(g, cell_can, edge_can, cell_can_extends))

\* wall_overlap looking at the first segment only
wall_overlap_first_only(g, cell_can, edge_can, cell_can_extends) ==
    wall_exists(g, cell_can, edge_can)

\* wall_overlap looking at the second segment only
wall_overlap_second_only(g, cell_can, edge_can, cell_can_extends) ==
    wall_exists(g, cell_can_extends, edge_can)

\* wall_exists(cell_can, edge_can) or wall_exists(cell_can_extends, edge_can)
wall_overlap(g, cell_can, edge_can, cell_can_extends) ==
    LET either(w1) ==
            IF w1.exc # "" THEN w1
            ELSE IF w1.val THEN w1
            ELSE wall_exists(g, cell_can_extends, edge_can)
    IN  either(wall_exists(g, cell_can, edge_can))

\* wall_place_composite checking the extends direction before the canonical index
wall_place_composite_direction_first(g, cell, edge, extends) ==
    LET placed(cell_can, edge_can, cell_can_extends, o) ==
            IF ~_is_position_inbounds(cell_can_extends)
            THEN [exc |-> "", ret |-> "out of the board", g |-> g]
            ELSE IF o.exc # "" THEN [exc |-> o.exc, ret |-> "", g |-> g]
            ELSE IF o.val THEN [exc |-> "", ret |-> "overlap", g |-> g]
            ELSE wall_trial(g, cell_can, edge_can, cell_can_extends)
        extended(cell_can, edge_can, cell_can_extends) ==
            placed(cell_can, edge_can, cell_can_extends,
                   wall_overlap(g, cell_can, edge_can, cell_can_extends))
        canonical(c) ==
            IF c.dir = UP /\ extends \notin {LEFT, RIGHT}
            THEN [exc |-> "", ret |-> "horizontal direction", g |-> g]
            ELSE IF c.dir = RIGHT /\ extends \notin {UP, DOWN}
            THEN [exc |-> "", ret |-> "vertical direction", g |-> g]
            ELSE IF c.exc = "IndexError" THEN [exc |-> "", ret |-> "invalid move", g |-> g]
            ELSE extended(c.pos, c.dir, PosAdd(c.pos, as_pos_delta(extends)))
    IN  canonical(_wall_canonical_index(cell, edge))

\* wall_place_composite extending from the named cell, not the canonical one
wall_place_composite_extends_named_cell(g, cell, edge, extends) ==
    LET placed(cell_can, edge_can, cell_can_extends, o) ==
            IF ~_is_position_inbounds(cell_can_extends)
            THEN [exc |-> "", ret |-> "out of the board", g |-> g]
            ELSE IF o.exc # "" THEN [exc |-> o.exc, ret |-> "", g |-> g]
            ELSE IF o.val THEN [exc |-> "", ret |-> "overlap", g |-> g]
            ELSE wall_trial(g, cell_can, edge_can, cell_can_extends)
        extended(cell_can, edge_can, cell_can_extends) ==
            placed(cell_can, edge_can, cell_can_extends,
                   wall_overlap(g, cell_can, edge_can, cell_can_extends))
        canonical(c) ==
            IF c.exc = "IndexError" THEN [exc |-> "", ret |-> "invalid move", g |-> g]
            ELSE IF c.dir = UP /\ extends \notin {LEFT, RIGHT}
            THEN [exc |-> "", ret |-> "horizontal direction", g |-> g]
            ELSE IF c.dir = RIGHT /\ extends \notin {UP, DOWN}
            THEN [exc |-> "", ret |-> "vertical direction", g |-> g]
            ELSE extended(c.pos, c.dir, PosAdd(cell, as_pos_delta(extends)))
    IN  canonical(_wall_canonical_index(cell, edge))

wall_place_composite(g, cell, edge, extends) ==
    LET placed(cell_can, edge_can, cell_can_extends, o) ==
            IF ~_is_position_inbounds(cell_can_extends)
            THEN [exc |-> "", ret |-> "out of the board", g |-> g]
            ELSE IF o.exc # "" THEN [exc |-> o.exc, ret |-> "", g |-> g]
            ELSE IF o.val THEN [exc |-> "", ret |-> "overlap", g |-> g]
            ELSE wall_trial(g, cell_can, edge_can, cell_can_extends)
        extended(cell_can, edge_can, cell_can_extends) ==
            placed(cell_can, edge_can, cell_can_extends,
                   wall_overlap(g, cell_can, edge_can, cell_can_extends))
        canonical(c) ==
            IF c.exc = "IndexError" THEN [exc |-> "", ret |-> "invalid move", g |-> g]
            ELSE IF c.dir = UP /\ extends \notin {LEFT, RIGHT}
            THEN [exc |-> "", ret |-> "horizontal direction", g |-> g]
            ELSE IF c.dir = RIGHT /\ extends \notin {UP, DOWN}
            THEN [exc |-> "", ret |-> "vertical direction", g |-> g]
            ELSE extended(c.pos, c.dir, PosAdd(c.pos, as_pos_delta(extends)))
    IN  canonical(_wall_canonical_index(cell, edge))

(***************************************************************************)
(* wall_placement_blocks(pos, direction) : [exc, val, g].  The single      *)
(* segment query; g is the live state after the call.                      *)
(***************************************************************************)
\* wall_placement_blocks setting the segment on the live state
wall_placement_blocks_no_copy(g, pos, direction) ==
    LET second(game_counterfactual, r1) ==
            IF r1.exc # "" THEN [exc |-> r1.exc, val |-> FALSE, g |-> game_counterfactual]
            ELSE [exc |-> "", val |-> ~r1.val, g |-> game_counterfactual]
        first(game_counterfactual, r0) ==
            IF r0.exc # "" THEN [exc |-> r0.exc, val |-> FALSE, g |-> game_counterfactual]
            ELSE IF ~r0.val THEN [exc |-> "", val |-> TRUE, g |-> game_counterfactual]
            ELSE second(game_counterfactual, _can_player_reach_goal(game_counterfactual, 1))
        counterfactual(s) ==
            IF s.exc # "" THEN [exc |-> s.exc, val |-> FALSE, g |-> g]
            ELSE first(s.g, _can_player_reach_goal(s.g, 0))
        canonical(c) ==
            IF c.exc # "" THEN [exc |-> c.exc, val |-> FALSE, g |-> g]
            ELSE IF c.dir = UP /\ EdgesCall(g.edges_up, c.pos)
            THEN [exc |-> "", val |-> TRUE, g |-> g]
            ELSE IF c.dir = RIGHT /\ EdgesCall(g.edges_right, c.pos)
            THEN [exc |-> "", val |-> TRUE, g |-> g]
            ELSE counterfactual(wall_place(g, c.pos, c.dir))
    IN  canonical(_wall_canonical_index(pos, direction))

wall_placement_blocks(g, pos, direction) ==
    LET second(r1) ==
            IF r1.exc # "" THEN [exc |-> r1.exc, val |-> FALSE, g |-> g]
            ELSE [exc |-> "", val |-> ~r1.val, g |-> g]
        first(game_counterfactual, r0) ==
            IF r0.exc # "" THEN [exc |-> r0.exc, val |-> FALSE, g |-> g]
            ELSE IF ~r0.val THEN [exc |-> "", val |-> TRUE, g |-> g]
            ELSE second(_can_player_reach_goal(game_counterfactual, 1))
        counterfactual(s) ==
            IF s.exc # "" THEN [exc |-> s.exc, val |-> FALSE, g |-> g]
            ELSE first(s.g, _can_player_reach_goal(s.g, 0))
        set(e, pos_canonical, direction_canonical) ==
            [exc |-> e.exc,
             g |-> IF direction_canonical = UP THEN [g EXCEPT !.edges_up = e.e]
                   ELSE [g EXCEPT !.edges_right = e.e]]
        canonical(c) ==
            IF c.exc # "" THEN [exc |-> c.exc, val |-> FALSE, g |-> g]
            ELSE IF c.dir = UP /\ EdgesCall(g.edges_up, c.pos)
            THEN [exc |-> "", val |-> TRUE, g |-> g]
            ELSE IF c.dir = RIGHT /\ EdgesCall(g.edges_right, c.pos)
            THEN [exc |-> "", val |-> TRUE, g |-> g]
            ELSE counterfactual(set(EdgesSet(IF c.dir = UP THEN g.edges_up
                                             ELSE g.edges_right, c.pos),
                                    c.pos, c.dir))
    IN  canonical(_wall_canonical_index(pos, direction))

(***************************************************************************)
(* wallPlace(playerIdx, cell, edge, extends): the placement with wall      *)
(* balance accounting (spec 4.4, steps 1 and 7; quoridor_test.py calls it  *)
(* as wall_place(player_idx, cell, edge, extends)).  Steps 2-6 and the     *)
(* application of the segments are wall_place_composite.                   *)
(***************************************************************************)
\* wallPlace that leaves the wall balance alone
wallPlace_no_decrement(g, player_idx, cell, edge, extends) ==
    IF g.players[player_idx].wall_balance = 0
    THEN [exc |-> "", ret |-> "balance", g |-> g]
    ELSE wall_place_composite(g, cell, edge, extends)

\* wallPlace without the balance check
wallPlace_no_balance_check(g, player_idx, cell, edge, extends) ==
    LET commit(r) ==
            IF r.exc = "" /\ r.ret = ""
            THEN [r EXCEPT !.g.players[player_idx].wall_balance = @ - 1]
            ELSE r
    IN  commit(wall_place_composite(g, cell, edge, extends))

\* wallPlace charging two walls for one placement
wallPlace_spends_two(g, player_idx, cell, edge, extends) ==
    LET commit(r) ==
            IF r.exc = "" /\ r.ret = ""
            THEN [r EXCEPT !.g.players[player_idx].wall_balance = @ - 2]
            ELSE r
    IN  IF g.players[player_idx].wall_balance = 0
        THEN [exc |-> "", ret |-> "balance", g |-> g]
        ELSE commit(wall_place_composite(g, cell, edge, extends))

wallPlace(g, player_idx, cell, edge, extends) ==
    LET commit(r) ==
            IF r.exc = "" /\ r.ret = ""
            THEN [r EXCEPT !.g.players[player_idx].wall_balance = @ - 1]
            ELSE r
    IN  IF g.players[player_idx].wall_balance = 0
        THEN [exc |-> "", ret |-> "balance", g |-> g]
        ELSE commit(wall_place_composite(g, cell, edge, extends))

(***************************************************************************)
(* move : [exc, won, err, g].  won is the first component of the returned  *)
(* tuple, err the second (its distinguishing phrase).                      *)
(***************************************************************************)
\* move updating the position before the collision check
move_early_update(g, player_idx, direction) ==
    LET moved(player_pos_new) ==
            IF player_idx = 0 /\ player_pos_new.row = BOARD_SIZE - 1
            THEN [exc |-> "", won |-> FALSE, err |-> "",
                  g |-> [g EXCEPT !.players[player_idx].pos = player_pos_new]]
            ELSE IF player_idx = 1 /\ player_pos_new.row = 0
            THEN [exc |-> "", won |-> FALSE, err |-> "",
                  g |-> [g EXCEPT !.players[player_idx].pos = player_pos_new]]
            ELSE [exc |-> "", won |-> TRUE, err |-> "",
                  g |-> [g EXCEPT !.players[player_idx].pos = player_pos_new]]
        checked(player_pos_cur, player_pos_new, w, enemy_pos) ==
            IF ~_is_position_inbounds(player_pos_new)
            THEN [exc |-> "", won |-> FALSE, err |-> "boundaries", g |-> g]
            ELSE IF w.exc # "" THEN [exc |-> w.exc, won |-> FALSE, err |-> "", g |-> g]
            ELSE IF w.val THEN [exc |-> "", won |-> FALSE, err |-> "wall", g |-> g]
            ELSE IF player_pos_new = enemy_pos
            THEN [exc |-> "", won |-> FALSE, err |-> "occupied",
                  g |-> [g EXCEPT !.players[player_idx].pos = player_pos_new]]
            ELSE moved(player_pos_new)
    IN  checked(g.players[player_idx].pos,
                PosAdd(g.players[player_idx].pos, as_pos_delta(direction)),
                wall_exists(g, g.players[player_idx].pos, direction),
                g.players[1 - player_idx].pos)

\* move without the collision check
move_no_collision_check(g, player_idx, direction) ==
    LET moved(player_pos_new) ==
            IF player_idx = 0 /\ player_pos_new.row = BOARD_SIZE - 1
            THEN [exc |-> "", won |-> FALSE, err |-> "",
                  g |-> [g EXCEPT !.players[player_idx].pos = player_pos_new]]
            ELSE IF player_idx = 1 /\ player_pos_new.row = 0
            THEN [exc |-> "", won |-> FALSE, err |-> "",
                  g |-> [g EXCEPT !.players[player_idx].pos = player_pos_new]]
            ELSE [exc |-> "", won |-> TRUE, err |-> "",
                  g |-> [g EXCEPT !.players[player_idx].pos = player_pos_new]]
        checked(player_pos_cur, player_pos_new, w) ==
            IF ~_is_position_inbounds(player_pos_new)
            THEN [exc |-> "", won |-> FALSE, err |-> "boundaries", g |-> g]
            ELSE IF w.exc # "" THEN [exc |-> w.exc, won |-> FALSE, err |-> "", g |-> g]
            ELSE IF w.val THEN [exc |-> "", won |-> FALSE, err |-> "wall", g |-> g]
            ELSE moved(player_pos_new)
    IN  checked(g.players[player_idx].pos,
                PosAdd(g.players[player_idx].pos, as_pos_delta(direction)),
                wall_exists(g, g.players[player_idx].pos, direction))

\* move making the collision check before the wall check
move_collision_before_wall(g, player_idx, direction) ==
    LET moved(player_pos_new) ==
            IF player_idx = 0 /\ player_pos_new.row = BOARD_SIZE - 1
            THEN [exc |-> "", won |-> FALSE, err |-> "",
                  g |-> [g EXCEPT !.players[player_idx].pos = player_pos_new]]
            ELSE IF player_idx = 1 /\ player_pos_new.row = 0
            THEN [exc |-> "", won |-> FALSE, err |-> "",
                  g |-> [g EXCEPT !.players[player_idx].pos = player_pos_new]]
            ELSE [exc |-> "", won |-> TRUE, err |-> "",
                  g |-> [g EXCEPT !.players[player_idx].pos = player_pos_new]]
        checked(player_pos_cur, player_pos_new, w, enemy_pos) ==
            IF ~_is_position_inbounds(player_pos_new)
            THEN [exc |-> "", won |-> FALSE, err |-> "boundaries", g |-> g]
            ELSE IF player_pos_new = enemy_pos
            THEN [exc |-> "", won |-> FALSE, err |-> "occupied", g |-> g]
            ELSE IF w.exc # "" THEN [exc |-> w.exc, won |-> FALSE, err |-> "", g |-> g]
            ELSE IF w.val THEN [exc |-> "", won |-> FALSE, err |-> "wall", g |-> g]
            ELSE moved(player_pos_new)
    IN  checked(g.players[player_idx].pos,
                PosAdd(g.players[player_idx].pos, as_pos_delta(direction)),
                wall_exists(g, g.players[player_idx].pos, direction),
                g.players[1 - player_idx].pos)

\* move looking up the wall before the boundary check
move_wall_check_first(g, player_idx, direction) ==
    LET moved(player_pos_new) ==
            IF player_idx = 0 /\ player_pos_new.row = BOARD_SIZE - 1
            THEN [exc |-> "", won |-> FALSE, err |-> "",
                  g |-> [g EXCEPT !.players[player_idx].pos = player_pos_new]]
            ELSE IF player_idx = 1 /\ player_pos_new.row = 0
            THEN [exc |-> "", won |-> FALSE, err |-> "",
                  g |-> [g EXCEPT !.players[player_idx].pos = player_pos_new]]
            ELSE [exc |-> "", won |-> TRUE, err |-> "",
                  g |-> [g EXCEPT !.players[player_idx].pos = player_pos_new]]
        checked(player_pos_cur, player_pos_new, w, enemy_pos) ==
            IF w.exc # "" THEN [exc |-> w.exc, won |-> FALSE, err |-> "", g |-> g]
            ELSE IF w.val THEN [exc |-> "", won |-> FALSE, err |-> "wall", g |-> g]
            ELSE IF ~_is_position_inbounds(player_pos_new)
            THEN [exc |-> "", won |-> FALSE, err |-> "boundaries", g |-> g]
            ELSE IF player_pos_new = enemy_pos
            THEN [exc |-> "", won |-> FALSE, err |-> "occupied", g |-> g]
            ELSE moved(player_pos_new)
    IN  checked(g.players[player_idx].pos,
                PosAdd(g.players[player_idx].pos, as_pos_delta(direction)),
                wall_exists(g, g.players[player_idx].pos, direction),
                g.players[1 - player_idx].pos)

\* move spending one of the mover's walls on success
move_spends_wall(g, player_idx, direction) ==
    LET spent(h) ==
            IF h.players[player_idx].wall_balance > 0
            THEN [h EXCEPT !.players[player_idx].wall_balance = @ - 1]
            ELSE h
        moved(player_pos_new) ==
            IF player_idx = 0 /\ player_pos_new.row = BOARD_SIZE - 1
            THEN [exc |-> "", won |-> FALSE, err |-> "",
                  g |-> spent([g EXCEPT !.players[player_idx].pos = player_pos_new])]
            ELSE IF player_idx = 1 /\ player_pos_new.row = 0
            THEN [exc |-> "", won |-> FALSE, err |-> "",
                  g |-> spent([g EXCEPT !.players[player_idx].pos = player_pos_new])]
            ELSE [exc |-> "", won |-> TRUE, err |-> "",
                  g |-> spent([g EXCEPT !.players[player_idx].pos = player_pos_new])]
        checked(player_pos_cur, player_pos_new, w, enemy_pos) ==
            IF ~_is_position_inbounds(player_pos_new)
            THEN [exc |-> "", won |-> FALSE, err |-> "boundaries", g |-> g]
            ELSE IF w.exc # "" THEN [exc |-> w.exc, won |-> FALSE, err |-> "", g |-> g]
            ELSE IF w.val THEN [exc |-> "", won |-> FALSE, err |-> "wall", g |-> g]
            ELSE IF player_pos_new = enemy_pos
            THEN [exc |-> "", won |-> FALSE, err |-> "occupied", g |-> g]
            ELSE moved(player_pos_new)
    IN  checked(g.players[player_idx].pos,
                PosAdd(g.players[player_idx].pos, as_pos_delta(direction)),
                wall_exists(g, g.players[player_idx].pos, direction),
                g.players[1 - player_idx].pos)

move(g, player_idx, direction) ==
    LET moved(player_pos_new) ==
            IF player_idx = 0 /\ player_pos_new.row = BOARD_SIZE - 1
            THEN [exc |-> "", won |-> FALSE, err |-> "",
                  g |-> [g EXCEPT !.players[player_idx].pos = player_pos_new]]
            ELSE IF player_idx = 1 /\ player_pos_new.row = 0
            THEN [exc |-> "", won |-> FALSE, err |-> "",
                  g |-> [g EXCEPT !.players[player_idx].pos = player_pos_new]]
            ELSE [exc |-> "", won |-> TRUE, err |-> "",
                  g |-> [g EXCEPT !.players[player_idx].pos = player_pos_new]]
        checked(player_pos_cur, player_pos_new, w, enemy_pos) ==
            IF ~_is_position_inbounds(player_pos_new)
            THEN [exc |-> "", won |-> FALSE, err |-> "boundaries", g |-> g]
            ELSE IF w.exc # "" THEN [exc |-> w.exc, won |-> FALSE, err |-> "", g |-> g]
            ELSE IF w.val THEN [exc |-> "", won |-> FALSE, err |-> "wall", g |-> g]
            ELSE IF player_pos_new = enemy_pos
            THEN [exc |-> "", won |-> FALSE, err |-> "occupied", g |-> g]
            ELSE moved(player_pos_new)
    IN  checked(g.players[player_idx].pos,
                PosAdd(g.players[player_idx].pos, as_pos_delta(direction)),
                wall_exists(g, g.players[player_idx].pos, direction),
                g.players[1 - player_idx].pos)

(***************************************************************************)
(* The state machine.  game is the GameState object; exc is the exception  *)
(* that escaped a public call ("" while none has: an uncaught exception    *)
(* ends the process); placed counts, per player, the wallPlace calls that  *)
(* returned the empty error.  The values a call returns are the fields of  *)
(* the records move(game, ...) and wallPlace(game, ...) compute.           *)
(***************************************************************************)
VARIABLES game, exc, placed, player, is_over, err_msg, last_actor, turn

vars == <<game, exc, placed, player, is_over, err_msg, last_actor, turn>>

\* The variables of the turn driver.
driver_vars == <<player, is_over, err_msg, last_actor, turn>>

Players == {0, 1}

Board == {Pos(r, c) : r \in 0 .. BOARD_SIZE - 1, c \in 0 .. BOARD_SIZE - 1}

\* One cell beyond each side of the board.
OffBoard ==
    {Pos(-1, BOARD_SIZE \div 2), Pos(BOARD_SIZE, BOARD_SIZE \div 2),
     Pos(BOARD_SIZE \div 2, -1), Pos(BOARD_SIZE \div 2, BOARD_SIZE)}

\* Cells a caller may name.
Cells == Board \cup OffBoard

\* No player has acted yet.
NoActor == 2

\* The turn number at which the loop of main stops.
TURN_LIMIT == 999

Init ==
    /\ game = new_game
    /\ exc = ""
    /\ placed = [p \in Players |-> 0]
    /\ player = 0
    /\ is_over = FALSE
    /\ err_msg = ""
    /\ last_actor = NoActor
    /\ turn = 1

Move(player_idx, direction) ==
    LET return(r) == game' = r.g /\ exc' = r.exc
    IN  /\ exc = ""
        /\ return(move(game, player_idx, direction))
        /\ UNCHANGED <<placed, driver_vars>>

WallPlace(player_idx, cell, edge, extends) ==
    LET return(r) ==
            /\ game' = r.g
            /\ exc' = r.exc
            /\ placed' = IF r.exc = "" /\ r.ret = ""
                         THEN [placed EXCEPT ![player_idx] = @ + 1]
                         ELSE placed
    IN  /\ exc = ""
        /\ return(wallPlace(game, player_idx, cell, edge, extends))
        /\ UNCHANGED driver_vars

Next ==
    \/ \E player_idx \in Players, direction \in Dir : Move(player_idx, direction)
    \/ \E player_idx \in Players, cell \in Cells, edge \in Dir, extends \in Dir :
           WallPlace(player_idx, cell, edge, extends)

Spec == Init /\ [][Next]_vars

(***************************************************************************)
(* The turn driver (run.py main and agent.py play_turn).  player is the    *)
(* loop variable of main, is_over the value play_turn returned, err_msg    *)
(* the error handed back to the agent for its retry ("" on a fresh turn),  *)
(* last_actor the player whose action the engine accepted last, turn the   *)
(* turn number main passes to play_turn.  The agent's tool call is an      *)
(* input: the strings and integers of its arguments.                       *)
(***************************************************************************)
\* Strings an agent may send for a direction argument.
DirStrings == {"up", "down", "left", "right", "top", "UP", ""}

\* play_turn returned: True ends main, False passes the turn to the next player.
TurnReturns(over, g, e) ==
    /\ game' = g
    /\ exc' = e
    /\ is_over' = over
    /\ err_msg' = ""
    /\ player' = IF over \/ e # "" THEN player ELSE 1 - player
    /\ last_actor' = IF e = "" THEN player ELSE last_actor
    /\ UNCHANGED turn

\* play_turn returning False after an error, so that the turn passes
TurnRetries_passes_turn(g, e) ==
    /\ game' = g
    /\ exc' = ""
    /\ err_msg' = e
    /\ player' = 1 - player
    /\ UNCHANGED <<is_over, last_actor, turn>>

\* play_turn calls itself with the error appended to the messages.
TurnRetries(g, e) ==
    /\ game' = g
    /\ exc' = ""
    /\ err_msg' = e
    /\ UNCHANGED <<player, is_over, last_actor, turn>>

\* An exception escapes play_turn and main.
TurnRaises(e) ==
    /\ exc' = e
    /\ UNCHANGED <<game, placed, driver_vars>>

\* the tool call "move"
PlayTurnMove(direction_str) ==
    LET called(r) ==
            IF r.exc # "" THEN TurnRaises(r.exc)
            ELSE IF r.won THEN TurnReturns(TRUE, r.g, "") /\ UNCHANGED placed
            ELSE IF r.err # "" THEN TurnRetries(r.g, r.err) /\ UNCHANGED placed
            ELSE TurnReturns(FALSE, r.g, "") /\ UNCHANGED placed
        parsed(direction) ==
            IF direction.exc # "" THEN TurnRaises(direction.exc)
            ELSE called(move(game, player, direction.val))
    IN  exc = "" /\ ~is_over /\ turn < TURN_LIMIT /\ parsed(from_str(direction_str))

\* the tool call "place_wall"
PlayTurnPlaceWall(cell, edge_str, extends_str) ==
    LET called(r) ==
            IF r.exc # "" THEN TurnRaises(r.exc)
            ELSE IF r.ret # "" THEN TurnRetries(r.g, r.ret) /\ UNCHANGED placed
            ELSE /\ TurnReturns(FALSE, r.g, "")
                 /\ placed' = [placed EXCEPT ![player] = @ + 1]
        parsed(edge, extends) ==
            IF edge.exc # "" THEN TurnRaises(edge.exc)
            ELSE IF extends.exc # "" THEN TurnRaises(extends.exc)
            ELSE called(wallPlace(game, player, cell, edge.val, extends.val))
    IN  /\ exc = "" /\ ~is_over /\ turn < TURN_LIMIT
        /\ parsed(from_str(edge_str), from_str(extends_str))

DriverNext ==
    \/ \E direction_str \in DirStrings : PlayTurnMove(direction_str)
    \/ \E cell \in Cells, edge_str \in DirStrings, extends_str \in DirStrings :
           PlayTurnPlaceWall(cell, edge_str, extends_str)

DriverSpec == Init /\ [][DriverNext]_vars

(***************************************************************************)
(* Notions the properties are stated with, read from the stored flags.     *)
(***************************************************************************)
\* The physical boundary between the in-bounds adjacent cells u and u + delta(d)
\* holds a wall.
Walled(g, u, d) ==
    CASE d = UP    -> g.edges_up.cells[u.row * BOARD_SIZE + u.col]
      [] d = DOWN  -> g.edges_up.cells[(u.row - 1) * BOARD_SIZE + u.col]
      [] d = RIGHT -> g.edges_right.cells[u.row * (BOARD_SIZE - 1) + u.col]
      [] d = LEFT  -> g.edges_right.cells[u.row * (BOARD_SIZE - 1) + u.col - 1]

\* Cells reachable from the cells of S by wall-free steps that avoid the cells of X.
RECURSIVE Closure(_, _, _)
Closure(g, S, X) ==
    LET T == S \cup {v \in Board \ (S \cup X) :
                        \E d \in Dir :
                            PosAdd(v, as_pos_delta(d)) \in S /\ ~Walled(g, v, d)}
    IN  IF T = S THEN S ELSE Closure(g, T, X)

GoalRow(p) == IF p = 0 THEN BOARD_SIZE - 1 ELSE 0

\* p has a wall-free path to its goal row (the opponent is no obstacle).
HasPath(g, p) ==
    \E c \in Closure(g, {g.players[p].pos}, {}) : c.row = GoalRow(p)

\* p has a wall-free path to its goal row that avoids the opponent's cell.
HasPathAvoiding(g, p) ==
    \E c \in Closure(g, {g.players[p].pos}, {g.players[1 - p].pos}) : c.row = GoalRow(p)

\* The wall slots of g that are set, as <<row, col, orientation>>.
WallSlots(g) ==
    {<<x[1], x[2], UP>> :
        x \in {y \in (0 .. BOARD_SIZE - 2) \X (0 .. BOARD_SIZE - 1) :
                  g.edges_up.cells[y[1] * BOARD_SIZE + y[2]]}}
    \cup
    {<<x[1], x[2], RIGHT>> :
        x \in {y \in (0 .. BOARD_SIZE - 1) \X (0 .. BOARD_SIZE - 2) :
                  g.edges_right.cells[y[1] * (BOARD_SIZE - 1) + y[2]]}}

(***************************************************************************)
(* Properties                                                              *)
(***************************************************************************)
WallPlaceErrors ==
    {"balance", "invalid move", "horizontal direction", "vertical direction",
     "out of the board", "overlap", "IMPOSSIBLE for player 0", "IMPOSSIBLE for player 1"}

\* Some wallPlace call made in state g returns the message e.
SomeWallPlaceReturns(g, e) ==
    \E p \in Players, cell \in Cells, edge \in Dir, extends \in Dir :
        wallPlace(g, p, cell, edge, extends).ret = e

\* Some move call made in state g returns the error e.
SomeMoveReturns(g, e) ==
    \E p \in Players, d \in Dir : move(g, p, d).err = e

\* C1: every wallPlace call that returns a non-empty error, made in any
\* reachable state, leaves the whole game state (both positions, both wall
\* balances, every wall slot) as it was before the call.
C1_FailedWallPlaceKeepsState ==
    \A p \in Players, cell \in Cells, edge \in Dir, extends \in Dir :
        LET r == wallPlace(game, p, cell, edge, extends)
        IN  r.ret # "" => r.g = game

\* a state in which wallPlace calls fail in every one of the failure branches
C1_Witness == \A e \in WallPlaceErrors : SomeWallPlaceReturns(game, e)

\* C2: in every reachable state each player has a path of wall-free steps
\* between in-bounds adjacent cells from its position to its goal row.
C2_NeverWalledOff == \A p \in Players : HasPath(game, p)

\* walls of both players are on the board, both players have left their start
\* cells and a further placement would be rejected as blocking
C2_Witness ==
    /\ placed[0] >= 1 /\ placed[1] >= 1
    /\ \A p \in Players : game.players[p].pos # new_game.players[p].pos
    /\ SomeWallPlaceReturns(game, "IMPOSSIBLE for player 0")
    /\ SomeWallPlaceReturns(game, "IMPOSSIBLE for player 1")

\* C3: in the state right after every successful wallPlace call, the
\* reachability check (the opponent's cell being an obstacle) succeeds for
\* player 0 and for player 1, and a path avoiding the opponent's cell exists.
C3_ReachableAfterWallPlace ==
    \A p \in Players, cell \in Cells, edge \in Dir, extends \in Dir :
        LET r == wallPlace(game, p, cell, edge, extends)
        IN  (r.exc = "" /\ r.ret = "") =>
                \A q \in Players :
                    /\ _can_player_reach_goal(r.g, q) = [exc |-> "", val |-> TRUE]
                    /\ HasPathAvoiding(r.g, q)

\* after placements by both players, one more placement succeeds while another
\* one would block
C3_Witness ==
    /\ placed[0] >= 1 /\ placed[1] >= 1
    /\ SomeWallPlaceReturns(game, "")
    /\ SomeWallPlaceReturns(game, "IMPOSSIBLE for player 1")

\* C4: every move call either returns a non-empty error and leaves the mover
\* where it was, or returns the empty error and puts the mover at its previous
\* position plus the direction's delta.
C4_MoveAllOrNothing ==
    \A p \in Players, d \in Dir :
        LET r == move(game, p, d)
        IN  /\ r.exc = ""
            /\ \/ r.err # "" /\ r.g.players[p].pos = game.players[p].pos
               \/ /\ r.err = ""
                  /\ r.g.players[p].pos = PosAdd(game.players[p].pos, as_pos_delta(d))

\* a state in which moves fail for each of the three reasons and one succeeds
C4_Witness == \A e \in {"boundaries", "wall", "occupied", ""} : SomeMoveReturns(game, e)

\* C5: in every reachable state both positions are on the board and differ.
C5_PositionsInBoundsAndDistinct ==
    /\ \A p \in Players : _is_position_inbounds(game.players[p].pos)
    /\ game.players[0].pos # game.players[1].pos

\* the players stand next to each other, one of them at the border
C5_Witness == SomeMoveReturns(game, "occupied") /\ SomeMoveReturns(game, "boundaries")

\* C6: the first component returned by move is the win flag: true exactly for a
\* successful move that ends on the mover's goal row, false for every other
\* successful move and for every failing move.
C6_WonIsWinFlag ==
    \A p \in Players, d \in Dir :
        LET r == move(game, p, d)
        IN  IF r.err = ""
            THEN r.won <=> (PosAdd(game.players[p].pos, as_pos_delta(d)).row = GoalRow(p))
            ELSE ~r.won

SlotOf(cell, edge) ==
    CASE edge = UP    -> <<cell.row, cell.col, UP>>
      [] edge = RIGHT -> <<cell.row, cell.col, RIGHT>>
      [] edge = DOWN  -> <<cell.row - 1, cell.col, UP>>
      [] edge = LEFT  -> <<cell.row, cell.col - 1, RIGHT>>

\* The slot next to s in direction extends.
SlotShift(s, extends) ==
    <<s[1] + as_pos_delta(extends).row, s[2] + as_pos_delta(extends).col, s[3]>>

ValidSlot(s) ==
    IF s[3] = UP
    THEN s[1] \in 0 .. BOARD_SIZE - 2 /\ s[2] \in 0 .. BOARD_SIZE - 1
    ELSE s[1] \in 0 .. BOARD_SIZE - 1 /\ s[2] \in 0 .. BOARD_SIZE - 2

\* (cell, edge, extends) describes a composite wall: two valid slots along the
\* wall's own axis.
DescribesWall(cell, edge, extends) ==
    /\ ValidSlot(SlotOf(cell, edge))
    /\ ValidSlot(SlotShift(SlotOf(cell, edge), extends))
    /\ IF SlotOf(cell, edge)[3] = UP THEN extends \in {LEFT, RIGHT} ELSE extends \in {UP, DOWN}

WallOf(cell, edge, extends) ==
    {SlotOf(cell, edge), SlotShift(SlotOf(cell, edge), extends)}

\* C9: a successful wallPlace sets exactly the two slots (cellCanonical,
\* edgeCanonical) and (cellCanonical + delta(extends), edgeCanonical): distinct,
\* adjacent, collinear, of one orientation and both empty before; every other
\* slot and both positions are unchanged.
C9_ExactlyTwoSlots ==
    \A p \in Players, cell \in Cells, edge \in Dir, extends \in Dir :
        LET r == wallPlace(game, p, cell, edge, extends)
        IN  (r.exc = "" /\ r.ret = "") =>
                /\ DescribesWall(cell, edge, extends)
                /\ Cardinality(WallOf(cell, edge, extends)) = 2
                /\ WallOf(cell, edge, extends) \cap WallSlots(game) = {}
                /\ WallSlots(r.g) = WallSlots(game) \cup WallOf(cell, edge, extends)
                /\ \A q \in Players : r.g.players[q].pos = game.players[q].pos

\* walls of both orientations are on the board and a further one can be placed
\* through a DOWN or LEFT description
C9_Witness ==
    /\ \E s \in WallSlots(game) : s[3] = UP
    /\ \E s \in WallSlots(game) : s[3] = RIGHT
    /\ \E p \in Players, cell \in Cells, edge \in {DOWN, LEFT}, extends \in Dir :
           wallPlace(game, p, cell, edge, extends).ret = ""

opposite(d) ==
    CASE d = UP -> DOWN [] d = DOWN -> UP [] d = LEFT -> RIGHT [] d = RIGHT -> LEFT

\* The four descriptions of the composite wall (cell, edge, extends): from either
\* side of the boundary and from either end of the wall.
Descriptions(cell, edge, extends) ==
    {<<cell, edge, extends>>,
     <<PosAdd(cell, as_pos_delta(edge)), opposite(edge), extends>>,
     <<PosAdd(cell, as_pos_delta(extends)), edge, opposite(extends)>>,
     <<PosAdd(PosAdd(cell, as_pos_delta(edge)), as_pos_delta(extends)),
       opposite(edge), opposite(extends)>>}

C11_EdgeAliasing ==
    /\ \A u \in Board, d \in Dir :
           _is_position_inbounds(PosAdd(u, as_pos_delta(d))) =>
               /\ wall_exists(game, u, d) = [exc |-> "", val |-> SlotOf(u, d) \in WallSlots(game)]
               /\ wall_exists(game, PosAdd(u, as_pos_delta(d)), opposite(d)) =
                      wall_exists(game, u, d)
               /\ SlotOf(PosAdd(u, as_pos_delta(d)), opposite(d)) = SlotOf(u, d)
    /\ \A p \in Players, cell \in Cells, edge \in Dir, extends \in Dir :
           LET r == wallPlace(game, p, cell, edge, extends)
           IN  (r.exc = "" /\ r.ret = "") =>
                   /\ wall_exists(r.g, cell, edge) = [exc |-> "", val |-> TRUE]
                   /\ wall_exists(r.g, PosAdd(cell, as_pos_delta(edge)), opposite(edge)) =
                          [exc |-> "", val |-> TRUE]

\* walls are seen through DOWN and through LEFT, and a further wall can be
\* placed through a DOWN edge and through a LEFT edge
C11_Witness ==
    /\ \E u \in Board : wall_exists(game, u, DOWN) = [exc |-> "", val |-> TRUE]
    /\ \E u \in Board : wall_exists(game, u, LEFT) = [exc |-> "", val |-> TRUE]
    /\ \A edge \in {DOWN, LEFT} :
           \E p \in Players, cell \in Board, extends \in Dir :
               wallPlace(game, p, cell, edge, extends).ret = ""

\* The error move(p, d) must report in state g when its checks are made in the
\* order OutOfBounds, WallBlocked, Occupied ("" when all three pass).
MoveFirstFailure(g, p, d) ==
    IF PosAdd(g.players[p].pos, as_pos_delta(d)) \notin Board THEN "boundaries"
    ELSE IF SlotOf(g.players[p].pos, d) \in WallSlots(g) THEN "wall"
    ELSE IF PosAdd(g.players[p].pos, as_pos_delta(d)) = g.players[1 - p].pos THEN "occupied"
    ELSE ""

\* C12: every move call reports the first failure in the order OutOfBounds,
\* WallBlocked, Occupied: a destination off the board gives OutOfBounds, a move
\* across a wall gives WallBlocked even when the destination is the other
\* player's cell, and Occupied is reported only for an in-bounds destination
\* with no wall between.
C12_MoveCheckOrder ==
    \A p \in Players, d \in Dir :
        LET r == move(game, p, d)
        IN  /\ r.exc = ""
            /\ r.err = MoveFirstFailure(game, p, d)
            /\ r.err = "occupied" =>
                   /\ PosAdd(game.players[p].pos, as_pos_delta(d)) \in Board
                   /\ SlotOf(game.players[p].pos, d) \notin WallSlots(game)

\* the players stand on adjacent cells with a wall between them, and the move
\* of one toward the other reports the wall
C12_Witness ==
    \E p \in Players, d \in Dir :
        /\ PosAdd(game.players[p].pos, as_pos_delta(d)) = game.players[1 - p].pos
        /\ SlotOf(game.players[p].pos, d) \in WallSlots(game)
        /\ move(game, p, d).err = "wall"

\* g with the wall slots of S set as well.
WithSlots(g, S) ==
    [g EXCEPT
        !.edges_up.cells =
            [i \in DOMAIN @ |-> @[i] \/ <<i \div BOARD_SIZE, i % BOARD_SIZE, UP>> \in S],
        !.edges_right.cells =
            [i \in DOMAIN @ |->
                @[i] \/ <<i \div (BOARD_SIZE - 1), i % (BOARD_SIZE - 1), RIGHT>> \in S]]

\* The second cell of the composite wall: the canonical cell plus delta(extends).
SecondCell(cell, edge, extends) ==
    Pos(SlotOf(cell, edge)[1] + as_pos_delta(extends).row,
        SlotOf(cell, edge)[2] + as_pos_delta(extends).col)

\* The messages wallPlace(p, cell, edge, extends) may return in state g when its
\* checks are made in the order InsufficientWalls, InvalidPlacement,
\* DirectionMismatch, OutOfBounds, Overlap, ImpossibleBlock.
WallPlaceFirstFailure(g, p, cell, edge, extends) ==
    IF g.players[p].wall_balance = 0 THEN {"balance"}
    ELSE IF ~ValidSlot(SlotOf(cell, edge)) THEN {"invalid move"}
    ELSE IF SlotOf(cell, edge)[3] = UP /\ extends \notin {LEFT, RIGHT}
    THEN {"horizontal direction"}
    ELSE IF SlotOf(cell, edge)[3] = RIGHT /\ extends \notin {UP, DOWN}
    THEN {"vertical direction"}
    ELSE IF SecondCell(cell, edge, extends) \notin Board THEN {"out of the board"}
    ELSE IF WallOf(cell, edge, extends) \cap WallSlots(g) # {} THEN {"overlap"}
    ELSE IF \E q \in Players : ~HasPathAvoiding(WithSlots(g, WallOf(cell, edge, extends)), q)
    THEN {"IMPOSSIBLE for player 0", "IMPOSSIBLE for player 1"}
    ELSE {""}

GridInRange(g) ==
    /\ g.edges_up.rows = BOARD_SIZE - 1 /\ g.edges_up.cols = BOARD_SIZE
    /\ DOMAIN g.edges_up.cells = 0 .. (BOARD_SIZE - 1) * BOARD_SIZE - 1
    /\ g.edges_right.rows = BOARD_SIZE /\ g.edges_right.cols = BOARD_SIZE - 1
    /\ DOMAIN g.edges_right.cells = 0 .. BOARD_SIZE * (BOARD_SIZE - 1) - 1
    /\ \A s \in WallSlots(g) : ValidSlot(s)

\* wall_exists and the one-segment wall_place fail with IndexError on every
\* (position, direction) whose canonical slot is not a valid slot, and leave
\* every flag as it was.
BorderLookupsFail(g) ==
    \A pos \in Cells, direction \in Dir :
        ~ValidSlot(SlotOf(pos, direction)) =>
            /\ wall_exists(g, pos, direction).exc = "IndexError"
            /\ wall_place(g, pos, direction) = [exc |-> "IndexError", g |-> g]

PassesEarlierChecks(g, p, cell, edge, extends) ==
    /\ g.players[p].wall_balance > 0
    /\ DescribesWall(cell, edge, extends)
    /\ WallOf(cell, edge, extends) \cap WallSlots(g) = {}

\* The trial state of the call: g with the two segments placed.
TrialState(g, cell, edge, extends) == WithSlots(g, WallOf(cell, edge, extends))

ImpossibleBlock(q) == IF q = 0 THEN "IMPOSSIBLE for player 0" ELSE "IMPOSSIBLE for player 1"

\* The players with no wall-free path avoiding the opponent in the trial state.
BlockedInTrial(g, cell, edge, extends) ==
    {q \in Players : ~HasPathAvoiding(TrialState(g, cell, edge, extends), q)}

\* C15: the reachability check takes the opponent's cell as an obstacle: it
\* returns true exactly when a wall-free path avoiding that cell exists; a
\* wallPlace call that passes the earlier checks and in whose trial state some
\* player has no such path is rejected with ImpossibleBlock and leaves the live
\* state unchanged, also when every player has a wall-free path through the
\* opponent's cell.
C15_ConservativeBlocking ==
    /\ \A q \in Players :
           _can_player_reach_goal(game, q) = [exc |-> "", val |-> HasPathAvoiding(game, q)]
    /\ \A cell \in Cells, edge \in Dir, extends \in Dir :
           (/\ DescribesWall(cell, edge, extends)
            /\ WallOf(cell, edge, extends) \cap WallSlots(game) = {}
            /\ BlockedInTrial(game, cell, edge, extends) # {})
               => \A p \in Players :
                      game.players[p].wall_balance > 0 =>
                          wallPlace(game, p, cell, edge, extends) \in
                              {[exc |-> "", ret |-> ImpossibleBlock(q), g |-> game] :
                                  q \in Players}

\* a wall is rejected as blocking although in the trial state both players have
\* a wall-free path: the only one of some player passes through the opponent
C15_Witness ==
    \E p \in Players, cell \in Cells, edge \in Dir, extends \in Dir :
        /\ PassesEarlierChecks(game, p, cell, edge, extends)
        /\ \A q \in Players : HasPath(TrialState(game, cell, edge, extends), q)
        /\ \E q \in Players : ~HasPathAvoiding(TrialState(game, cell, edge, extends), q)
        /\ \E q \in Players : wallPlace(game, p, cell, edge, extends).ret = ImpossibleBlock(q)

\* The sides of cell u that hold a wall or are the border of the board.
ClosedSides(g, u) ==
    {d \in Dir : PosAdd(u, as_pos_delta(d)) \notin Board \/ SlotOf(u, d) \in WallSlots(g)}

Interior == {u \in Board : \A d \in Dir : PosAdd(u, as_pos_delta(d)) \in Board}

\* The players whose interior cell is `cell`, with walls on every side but `edge`.
EnclosedBut(g, cell, edge) ==
    {q \in Players : /\ g.players[q].pos = cell
                     /\ cell \in Interior
                     /\ ClosedSides(g, cell) = Dir \ {edge}}

\* C16 as stated: a wallPlace call that returns ImpossibleBlock names a player
\* who fails the reachability check in the trial state and changes nothing;
\* when player 1 is the only player blocked the message names player 1; when
\* three sides of a player's interior cell hold walls, the placement that would
\* close the fourth side is rejected naming that player.
C16_BlockNamesBlockedPlayer ==
    \A cell \in Cells, edge \in Dir, extends \in Dir :
        LET named(blocked, enclosed) ==
                \A p \in Players :
                    LET returned(r) ==
                            /\ \A q \in Players :
                                   r.ret = ImpossibleBlock(q) => q \in blocked /\ r.g = game
                            /\ blocked = {1} => r.ret = ImpossibleBlock(1)
                            /\ \A q \in enclosed :
                                   r.ret = ImpossibleBlock(q) /\ WallSlots(r.g) = WallSlots(game)
                    IN  PassesEarlierChecks(game, p, cell, edge, extends) =>
                            returned(wallPlace(game, p, cell, edge, extends))
        IN  (DescribesWall(cell, edge, extends)
             /\ WallOf(cell, edge, extends) \cap WallSlots(game) = {}) =>
                named(BlockedInTrial(game, cell, edge, extends),
                      EnclosedBut(game, cell, edge))

\* C16 (amended): a wallPlace call that returns ImpossibleBlock has passed the
\* earlier checks, changes nothing and names the first player, in the order
\* 0, 1, who has no path avoiding the opponent in the trial state: player 1 when
\* player 1 is the only one blocked.  When three sides of a player's interior
\* cell hold walls, the placement that would close the fourth side is rejected
\* with ImpossibleBlock and the grid keeps the segments it had; the message
\* names that player unless that player is player 1 and the same wall leaves
\* player 0 without a path too, in which case it names player 0.
C16_BlockNamesFirstBlockedPlayer ==
    /\ \A p \in Players, cell \in Cells, edge \in Dir, extends \in Dir :
           ~PassesEarlierChecks(game, p, cell, edge, extends) =>
               wallPlace(game, p, cell, edge, extends).ret \notin
                   {ImpossibleBlock(q) : q \in Players}
    /\ \A cell \in Cells, edge \in Dir, extends \in Dir :
           LET named(blocked, enclosed) ==
                   \A p \in Players :
                       LET returned(r) ==
                               /\ r.exc = ""
                               /\ r.ret = IF 0 \in blocked THEN ImpossibleBlock(0)
                                          ELSE IF 1 \in blocked THEN ImpossibleBlock(1)
                                          ELSE ""
                               /\ blocked # {} => r.g = game
                               /\ enclosed \subseteq blocked
                       IN  PassesEarlierChecks(game, p, cell, edge, extends) =>
                               returned(wallPlace(game, p, cell, edge, extends))
           IN  (DescribesWall(cell, edge, extends)
                /\ WallOf(cell, edge, extends) \cap WallSlots(game) = {}) =>
                   named(BlockedInTrial(game, cell, edge, extends),
                         EnclosedBut(game, cell, edge))

\* player 1 stands on an interior cell with walls on three sides, player 0 is
\* free, and the wall closing the fourth side is rejected naming player 1
C16_Witness ==
    \E p \in Players, edge \in Dir, extends \in Dir :
        /\ game.players[1].pos \in Interior
        /\ ClosedSides(game, game.players[1].pos) = Dir \ {edge}
        /\ HasPathAvoiding(TrialState(game, game.players[1].pos, edge, extends), 0)
        /\ wallPlace(game, p, game.players[1].pos, edge, extends).ret = ImpossibleBlock(1)

\* wall_exists is false for every valid slot of g: all top slots of rows
\* 0 .. N-2 and all right slots of columns 0 .. N-2.
NoWallAnywhere(g) ==
    /\ \A row \in 0 .. BOARD_SIZE - 2, col \in 0 .. BOARD_SIZE - 1 :
           wall_exists(g, Pos(row, col), UP) = [exc |-> "", val |-> FALSE]
    /\ \A row \in 0 .. BOARD_SIZE - 1, col \in 0 .. BOARD_SIZE - 2 :
           wall_exists(g, Pos(row, col), RIGHT) = [exc |-> "", val |-> FALSE]

\* C17: the state new_game builds has player 0 at (0, floor(N/2)), player 1 at
\* (N-1, floor(N/2)), both wall balances at the starting value and no wall in
\* any valid slot; it is the state every run starts in, and the balances and
\* the empty grid last until the first successful wallPlace.
C17_NewGame ==
    /\ new_game.players[0].pos = Pos(0, BOARD_SIZE \div 2)
    /\ new_game.players[1].pos = Pos(BOARD_SIZE - 1, BOARD_SIZE \div 2)
    /\ 2 * (BOARD_SIZE \div 2) <= BOARD_SIZE /\ BOARD_SIZE < 2 * (BOARD_SIZE \div 2) + 2
    /\ \A p \in Players : new_game.players[p].wall_balance = PLAYER_WALL_START_COUNT
    /\ NoWallAnywhere(new_game)
    /\ (placed[0] + placed[1] = 0) =>
           /\ \A p \in Players : game.players[p].wall_balance = PLAYER_WALL_START_COUNT
           /\ NoWallAnywhere(game)

\* the game is in the state new_game builds, where moves and wall placements
\* are accepted
C17_Witness ==
    /\ game = new_game
    /\ placed[0] + placed[1] = 0
    /\ SomeMoveReturns(game, "")
    /\ \A p \in Players, cell \in Board, edge \in Dir, extends \in Dir :
           DescribesWall(cell, edge, extends) =>
               wallPlace(game, p, cell, edge, extends).ret = ""

\* The canonical cell of a valid slot.
SlotCell(s) == Pos(s[1], s[2])

\* C18: no public call lets the IndexError of the wall index escape: for both
\* players, every direction, every cell on or off the board, every edge and
\* every extends, move and wallPlace return a result in every reachable state;
\* move looks up the wall of an in-bounds destination only, and the lookups of
\* both segments of a wallPlace that passes the earlier checks are in range.
C18_ErrorsAreData ==
    /\ exc # "IndexError"
    /\ \A p \in Players, d \in Dir :
           /\ move(game, p, d).exc # "IndexError"
           /\ PosAdd(game.players[p].pos, as_pos_delta(d)) \in Board =>
                  wall_exists(game, game.players[p].pos, d).exc = ""
    /\ \A p \in Players, cell \in Cells, edge \in Dir, extends \in Dir :
           /\ wallPlace(game, p, cell, edge, extends).exc # "IndexError"
           /\ (/\ ValidSlot(SlotOf(cell, edge))
               /\ IF SlotOf(cell, edge)[3] = UP THEN extends \in {LEFT, RIGHT}
                                                ELSE extends \in {UP, DOWN}
               /\ SecondCell(cell, edge, extends) \in Board)
                  => /\ wall_exists(game, SlotCell(SlotOf(cell, edge)),
                                    SlotOf(cell, edge)[3]).exc = ""
                     /\ wall_exists(game, SecondCell(cell, edge, extends),
                                    SlotOf(cell, edge)[3]).exc = ""

\* walls of both players are on the board, a player at the border moves off the
\* board, and wallPlace is called with a cell off the board, with a border edge
\* of a board cell and with an extends that leaves the board
C18_Witness ==
    /\ placed[0] >= 1 /\ placed[1] >= 1
    /\ \E p \in Players, d \in Dir :
           /\ _wall_canonical_index(game.players[p].pos, d).exc = "IndexError"
           /\ move(game, p, d).err = "boundaries"
    /\ \E p \in Players, cell \in OffBoard, edge \in Dir, extends \in Dir :
           wallPlace(game, p, cell, edge, extends).ret = "invalid move"
    /\ \E p \in Players, cell \in Board, edge \in Dir, extends \in Dir :
           wallPlace(game, p, cell, edge, extends).ret = "invalid move"
    /\ SomeWallPlaceReturns(game, "out of the board")

\* C19: the AssertionError of Edges.set is never raised through the public
\* calls: no reachable state has it, no wallPlace call raises it, and for every
\* call that passes the earlier checks the two placements on the copy succeed,
\* on two distinct slots that are clear in the live grid.
C19_NoInvariantViolation ==
    /\ exc # "AssertionError"
    /\ \A p \in Players, d \in Dir : move(game, p, d).exc # "AssertionError"
    /\ \A p \in Players, cell \in Cells, edge \in Dir, extends \in Dir :
           /\ wallPlace(game, p, cell, edge, extends).exc # "AssertionError"
           /\ PassesEarlierChecks(game, p, cell, edge, extends) =>
                  /\ wall_copy_place(game, SlotCell(SlotOf(cell, edge)), SlotOf(cell, edge)[3],
                                     SecondCell(cell, edge, extends)).exc = ""
                  /\ SlotCell(SlotOf(cell, edge)) # SecondCell(cell, edge, extends)

\* walls are on the board and a player with walls left describes a wall whose
\* first segment is taken, one whose second segment is taken, and a free wall
\* next to the existing ones that is placed
C19_Witness ==
    /\ \E p \in Players, cell \in Cells, edge \in Dir, extends \in Dir :
           /\ game.players[p].wall_balance > 0
           /\ DescribesWall(cell, edge, extends)
           /\ SlotOf(cell, edge) \in WallSlots(game)
           /\ SecondCell(cell, edge, extends) \in Board
           /\ SlotShift(SlotOf(cell, edge), extends) \notin WallSlots(game)
    /\ \E p \in Players, cell \in Cells, edge \in Dir, extends \in Dir :
           /\ game.players[p].wall_balance > 0
           /\ DescribesWall(cell, edge, extends)
           /\ SlotOf(cell, edge) \notin WallSlots(game)
           /\ SlotShift(SlotOf(cell, edge), extends) \in WallSlots(game)
    /\ WallSlots(game) # {}
    /\ SomeWallPlaceReturns(game, "")

\* Some player stands on its goal row.
SomeoneHasWon(g) == \E q \in Players : g.players[q].pos.row = GoalRow(q)

C21_FromStrInvertsStr ==
    /\ from_str("up") = [exc |-> "", val |-> UP]
    /\ from_str("down") = [exc |-> "", val |-> DOWN]
    /\ from_str("left") = [exc |-> "", val |-> LEFT]
    /\ from_str("right") = [exc |-> "", val |-> RIGHT]
    /\ \A s \in DirStrings \ {"up", "down", "left", "right"} :
           from_str(s).exc = "ValueError"
    /\ \A d \in Dir : from_str(dir_str(d)) = [exc |-> "", val |-> d]
    /\ \A d1 \in Dir, d2 \in Dir : dir_str(d1) = dir_str(d2) => d1 = d2
    /\ exc \in {"", "ValueError"}

\* an action whose direction strings parsed was accepted, and a later tool call
\* named a direction that does not parse
C21_Witness == exc = "ValueError" /\ last_actor # NoActor /\ placed[0] + placed[1] >= 1

\* C22: for the live state and for the state with any composite wall added,
\* and for each player, _can_player_reach_goal returns true exactly when the
\* player's goal row is reachable from its position by steps between adjacent
\* cells that stay on the board, do not enter the other player's cell and cross
\* no wall; it returns true when the player stands on its goal row.
C22_ReachabilityIsPathExistence ==
    /\ \A q \in Players :
           /\ _can_player_reach_goal(game, q) = [exc |-> "", val |-> HasPathAvoiding(game, q)]
           /\ game.players[q].pos.row = GoalRow(q) => _can_player_reach_goal(game, q).val
    /\ \A cell \in Board, edge \in {UP, RIGHT}, extends \in Dir :
           LET agrees(t) ==
                   \A q \in Players :
                       _can_player_reach_goal(t, q) =
                           [exc |-> "", val |-> HasPathAvoiding(t, q)]
           IN  DescribesWall(cell, edge, extends) =>
                   agrees(TrialState(game, cell, edge, extends))

\* a player stands on its goal row, the check fails in the live state for the
\* other player, and a further wall would cut a player off
C22_Witness ==
    /\ \E q \in Players : game.players[q].pos.row = GoalRow(q)
    /\ \E q \in Players : ~HasPathAvoiding(game, q)
    /\ \E cell \in Board, edge \in {UP, RIGHT}, extends \in Dir, q \in Players :
           /\ DescribesWall(cell, edge, extends)
           /\ ~HasPath(TrialState(game, cell, edge, extends), q)

\* The cells of sequence q are pairwise distinct.
NoDuplicates(q) == \A i \in 1 .. Len(q), j \in 1 .. Len(q) : q[i] = q[j] => i = j

\* C23: the search of the reachability check ends in every reachable state and
\* for each player, with no exception from the wall lookup, after appending
\* every cell to the queue at most once: at most N*N cells of the board, the
\* player's own cell first and never the other player's.
C23_SearchTerminates ==
    \A q \in Players :
        LET ended(b) ==
                /\ b.exc = ""
                /\ b.val \in BOOLEAN
                /\ NoDuplicates(b.enqueued)
                /\ Len(b.enqueued) <= BOARD_SIZE * BOARD_SIZE
                /\ Head(b.enqueued) = game.players[q].pos
                /\ \A i \in 1 .. Len(b.enqueued) :
                       b.enqueued[i] \in Board \ {game.players[1 - q].pos}
        IN  ended(bfs(game, q, game.players[1 - q].pos, GoalRow(q)))

\* a search that exhausts its queue without reaching the goal row, and a search
\* of the other player that visits cells reachable along two different routes
C23_Witness ==
    \E q \in Players :
        /\ ~bfs(game, q, game.players[1 - q].pos, GoalRow(q)).val
        /\ Len(bfs(game, q, game.players[1 - q].pos, GoalRow(q)).enqueued) >= 2
        /\ bfs(game, 1 - q, game.players[q].pos, GoalRow(1 - q)).val
        /\ Len(bfs(game, 1 - q, game.players[q].pos, GoalRow(1 - q)).enqueued) >= 5

\* C24 as stated: in every reachable state the reachability check, with the
\* opponent's cell as an obstacle, succeeds for both players, and no wallPlace
\* is rejected with ImpossibleBlock naming a player for whom the check failed
\* before the wall was tried.
C24_CheckSucceedsInEveryState ==
    /\ \A q \in Players : _can_player_reach_goal(game, q).val
    /\ \A p \in Players, cell \in Cells, edge \in Dir, extends \in Dir, q \in Players :
           wallPlace(game, p, cell, edge, extends).ret = ImpossibleBlock(q) =>
               _can_player_reach_goal(game, q).val

\* C24 (amended): in every reachable state each player has a wall-free path to
\* its goal row when the opponent's cell is no obstacle; the reachability check
\* succeeds for both players in the state every successful wallPlace leaves,
\* but after a move it may fail for a player all of whose routes pass through
\* the opponent's cell, and in such a state every wallPlace that passes the
\* earlier checks is rejected with ImpossibleBlock and changes nothing.
C24_PathExistsCheckMayFail ==
    /\ \A q \in Players :
           /\ HasPath(game, q)
           /\ _can_player_reach_goal(game, q).exc = ""
    /\ \A p \in Players, cell \in Cells, edge \in Dir, extends \in Dir :
           LET returned(r) ==
                   /\ r.exc = ""
                   /\ r.ret = "" => \A q \in Players : _can_player_reach_goal(r.g, q).val
                   /\ (\E q \in Players : ~_can_player_reach_goal(game, q).val) =>
                          /\ r.ret \in {ImpossibleBlock(q) : q \in Players}
                          /\ r.g = game
           IN  PassesEarlierChecks(game, p, cell, edge, extends) =>
                   returned(wallPlace(game, p, cell, edge, extends))

\* the check fails in the live state for a player who has a wall-free path
\* through the opponent's cell, and a wall that would not touch that path is
\* rejected naming that player
C24_Witness ==
    \E q \in Players, p \in Players, cell \in Cells, edge \in Dir, extends \in Dir :
        /\ ~_can_player_reach_goal(game, q).val
        /\ HasPath(game, q)
        /\ PassesEarlierChecks(game, p, cell, edge, extends)
        /\ HasPath(TrialState(game, cell, edge, extends), q)
        /\ wallPlace(game, p, cell, edge, extends).ret = ImpossibleBlock(q)

\* C25: every move call, failing or not, returns a state that differs from the
\* state before at most in the mover's position: the grids, both wall balances
\* and the other player's position are as they were.
C25_MoveFrame ==
    \A p \in Players, d \in Dir :
        LET frame(r) ==
                /\ r.exc = ""
                /\ r.g.edges_up = game.edges_up
                /\ r.g.edges_right = game.edges_right
                /\ \A q \in Players :
                       r.g.players[q].wall_balance = game.players[q].wall_balance
                /\ r.g.players[1 - p].pos = game.players[1 - p].pos
                /\ r.g = [game EXCEPT !.players[p].pos = r.g.players[p].pos]
                /\ r.err # "" => r.g = game
        IN  frame(move(game, p, d))

\* walls are on the board, the balances differ, and a player has a move that is
\* accepted and one that is rejected
C25_Witness ==
    /\ WallSlots(game) # {}
    /\ game.players[0].wall_balance # game.players[1].wall_balance
    /\ \E p \in Players, d1 \in Dir, d2 \in Dir :
           /\ move(game, p, d1).err = "" /\ move(game, p, d1).g # game
           /\ move(game, p, d2).err = "wall"

\* The error class of a message returned by wallPlace.
ErrorClass(ret) ==
    CASE ret = "" -> "None"
      [] ret = "balance" -> "InsufficientWalls"
      [] ret = "invalid move" -> "InvalidPlacement"
      [] ret \in {"horizontal direction", "vertical direction"} -> "DirectionMismatch"
      [] ret = "out of the board" -> "OutOfBounds"
      [] ret = "overlap" -> "Overlap"
      [] ret \in {"IMPOSSIBLE for player 0", "IMPOSSIBLE for player 1"} -> "ImpossibleBlock"

\* Two wallPlace results have the same error class and the same resulting state.
SameOutcome(r1, r2) ==
    /\ r1.exc = "" /\ r2.exc = ""
    /\ ErrorClass(r1.ret) = ErrorClass(r2.ret)
    /\ r1.g = r2.g

\* The same boundary named from the cell on its other side gives the same outcome.
SameFromOtherSide ==
    \A p \in Players, cell \in Cells, edge \in {DOWN, LEFT}, extends \in Dir :
        SameOutcome(wallPlace(game, p, cell, edge, extends),
                    wallPlace(game, p, PosAdd(cell, as_pos_delta(edge)),
                              opposite(edge), extends))

\* extends runs along the wall that the edge `edge` of a cell is part of.
AlongWall(edge, extends) ==
    IF edge \in {UP, DOWN} THEN extends \in {LEFT, RIGHT} ELSE extends \in {UP, DOWN}

\* C26 as stated: wallPlace(p, cell, DOWN, e) and wallPlace(p, cell + delta(DOWN),
\* UP, e) give the same error class and state, as do the LEFT and RIGHT
\* descriptions, and as do wallPlace(p, cell, edge, e) and
\* wallPlace(p, cell + delta(e), edge, opposite(e)) whenever both cells are on
\* the board.
C26_EquivalentDescriptions ==
    /\ SameFromOtherSide
    /\ \A p \in Players, cell \in Board, edge \in Dir, extends \in Dir :
           PosAdd(cell, as_pos_delta(extends)) \in Board =>
               SameOutcome(wallPlace(game, p, cell, edge, extends),
                           wallPlace(game, p, PosAdd(cell, as_pos_delta(extends)),
                                     edge, opposite(extends)))

\* C26 (amended): the descriptions of a boundary from its two sides give the
\* same error class and state for every cell, on or off the board, and every
\* extends; the descriptions from the two ends, (cell, edge, e) and
\* (cell + delta(e), edge, opposite(e)), give the same error class and state
\* when both cells are on the board and e runs along the wall.
C26_EquivalentDescriptionsAlongWall ==
    /\ SameFromOtherSide
    /\ \A p \in Players, cell \in Board, edge \in Dir, extends \in Dir :
           (PosAdd(cell, as_pos_delta(extends)) \in Board /\ AlongWall(edge, extends)) =>
               SameOutcome(wallPlace(game, p, cell, edge, extends),
                           wallPlace(game, p, PosAdd(cell, as_pos_delta(extends)),
                                     edge, opposite(extends)))

\* with walls on the board, one wall is accepted, another is rejected as
\* overlapping and a third as blocking, each through a DOWN or LEFT edge
C26_Witness ==
    /\ WallSlots(game) # {}
    /\ \A e \in {"", "overlap", "IMPOSSIBLE for player 0"} :
           \E p \in Players, cell \in Board, edge \in {DOWN, LEFT}, extends \in Dir :
               /\ wallPlace(game, p, cell, edge, extends).ret = e
               /\ PosAdd(cell, as_pos_delta(extends)) \in Board

\* C27: wall_placement_blocks(pos, direction) leaves the live state as it was;
\* for a valid slot it raises nothing and returns true exactly when the slot
\* already holds a wall or when, with that one segment added, player 0 or
\* player 1 has no path avoiding the opponent; when three sides of a player's
\* interior cell are closed it returns true for the fourth side and the grid
\* holds the same segments as before.
C27_BlocksQuery ==
    \A pos \in Cells, direction \in Dir :
        LET returned(r) ==
                /\ r.g = game
                /\ ValidSlot(SlotOf(pos, direction)) =>
                       /\ r.exc = ""
                       /\ r.val = (\/ SlotOf(pos, direction) \in WallSlots(game)
                                   \/ \E q \in Players :
                                          ~HasPathAvoiding(
                                              WithSlots(game, {SlotOf(pos, direction)}), q))
                /\ EnclosedBut(game, pos, direction) # {} =>
                       r.val /\ WallSlots(r.g) = WallSlots(game)
        IN  returned(wall_placement_blocks(game, pos, direction))

\* a player stands on an interior cell closed on three sides, the query is true
\* for the open fourth side, true for a slot that holds a wall and false for
\* some free slot
C27_Witness ==
    /\ \E q \in Players, direction \in Dir :
           /\ q \in EnclosedBut(game, game.players[q].pos, direction)
           /\ wall_placement_blocks(game, game.players[q].pos, direction).val
    /\ \E pos \in Board, direction \in Dir :
           /\ ValidSlot(SlotOf(pos, direction))
           /\ SlotOf(pos, direction) \notin WallSlots(game)
           /\ wall_placement_blocks(game, pos, direction) =
                  [exc |-> "", val |-> FALSE, g |-> game]

\* C28: walls are never removed: in every step of move and wallPlace calls
\* every wall slot that is set stays set, and the set of wall slots changes only
\* in a step that is a successful wallPlace call (the count of successful
\* placements goes up and no player changes position).
C28_WallsNeverRemoved ==
    [][/\ WallSlots(game) \subseteq WallSlots(game')
       /\ WallSlots(game') # WallSlots(game) =>
              /\ \E p \in Players : placed' = [placed EXCEPT ![p] = @ + 1]
              /\ \A p \in Players : game'.players[p].pos = game.players[p].pos
              /\ exc' = ""]_vars

\* every wall of both players is on the board and both players have moved
\* away from their starting cells
C28_Witness ==
    /\ Cardinality(WallSlots(game)) = 4 * PLAYER_WALL_START_COUNT
    /\ \A p \in Players : placed[p] = PLAYER_WALL_START_COUNT
    /\ \A p \in Players : game.players[p].pos # new_game.players[p].pos

\* The walls the two players have spent: twice the starting balance minus the
\* sum of the two current balances.
WallsSpent(g) ==
    2 * PLAYER_WALL_START_COUNT
        - (g.players[0].wall_balance + g.players[1].wall_balance)

C31_WinnerDeclaredOnGoalRow ==
    is_over =>
        /\ last_actor \in Players
        /\ game.players[last_actor].pos.row = GoalRow(last_actor)

\* C32: the turn number goes up by one at the end of each round, that is in
\* the step in which player 1's turn ends and player 0 is to act again, and
\* changes in no other step.
C32_TurnCountsRounds ==
    [][turn' = IF player = 1 /\ player' = 0 THEN turn + 1 ELSE turn]_vars

====
